---- MODULE Spec2Model ----
(***************************************************************************)
(* A model of maec_to_stix/indicator_extractor/indicator_filter.py:        *)
(* IndicatorFilter, the filter that checks Object History entries for      *)
(* contraindicators and required properties and prunes their properties.   *)
(*                                                                         *)
(* Data representation                                                     *)
(*   - a Python string that is a path ("A/x") is a sequence of tokens,     *)
(*     <<"A", "/", "x">>; a property name is one token without "/";        *)
(*   - a scalar is a record [isnum, n, txt]: a number n or a text, the     *)
(*     sequence of its characters;                                         *)
(*   - a property value is a record [tag, s, d, l] with tag "scalar",      *)
(*     "dict" or "list"; the fields a tag does not use hold a default;     *)
(*   - a dict is a function from property names to property values;        *)
(*   - a supported_properties dict is the sequence of its items            *)
(*     [path, wl] in the order keys() enumerates them (paths distinct).    *)
(***************************************************************************)
EXTENDS Integers, Sequences, FiniteSets, TLC

VARIABLES
    pc,               \* position of the run that the specification models
    object_dict,      \* SpecPrune: the property tree given to the pruner
    supported,        \* SpecPrune: the supported_properties dict given to it
    pruned,           \* SpecPrune: what the first call returned
    repruned,         \* SpecPrune: what pruning the first result returned
    config,           \* self.config: contraindicators, modifiers, supported_objects
    action_context,   \* SpecContra: entry.get_action_context()
    contraindication, \* SpecContra: what _contraindicator_check returned
    candidates,       \* Spec: candidate_indicator_objects, whose entries line 159 changes
    given,            \* Spec: the candidates as they were when the call was made
    final,            \* Spec: final_indicator_objects
    position          \* Spec: the number of candidates the loop has taken

prune_vars == <<object_dict, supported, pruned, repruned>>

contra_vars == <<action_context, contraindication>>

filter_vars == <<candidates, given, final, position>>

vars == <<pc, config, prune_vars, contra_vars, filter_vars>>

-----------------------------------------------------------------------------
(* Property names: at the root of a tree, and below it                     *)

RootNames == {"A", "value"}

NestedNames == {"x", "value"}

-----------------------------------------------------------------------------
(* Strings, scalars, regular expressions                                   *)

Last(q) == q[Len(q)]

Front(q) == SubSeq(q, 1, Len(q) - 1)

Range(q) == {q[i] : i \in 1..Len(q)}

\* str.split("/"): the names between the "/" tokens ("" for an empty piece).
RECURSIVE Split(_)
Split(str) ==
    IF \A i \in 1..Len(str) : str[i] # "/"
    THEN <<IF str = <<>> THEN "" ELSE str[1]>>
    ELSE LET i == CHOOSE j \in 1..Len(str) :
                      str[j] = "/" /\ \A k \in 1..(j - 1) : str[k] # "/"
         IN  <<IF i = 1 THEN "" ELSE str[1]>> \o Split(SubSeq(str, i + 1, Len(str)))

\* parent_key + "/" + property_name
JoinKey(parent_key, property_name) == parent_key \o <<"/", property_name>>

DigitChar == <<"0", "1", "2", "3", "4", "5", "6", "7", "8", "9">>

\* str(element_value) of a non-negative number: its decimal digits.
RECURSIVE Digits(_)
Digits(n) ==
    IF n < 10 THEN <<DigitChar[n + 1]>>
    ELSE Digits(n \div 10) \o <<DigitChar[(n % 10) + 1]>>

\* str(element_value)
PyStr(v) == IF v.isnum THEN Digits(v.n) ELSE v.txt

\* re.match(whitelist_pattern, text) for a pattern of literal characters with
\* an optional leading "^": the match is anchored at the start of the text.
ReMatch(pattern, text) ==
    LET lit == IF pattern # <<>> /\ pattern[1] = "^" THEN Tail(pattern) ELSE pattern
    IN  /\ Len(lit) <= Len(text)
        /\ \A i \in 1..Len(lit) : text[i] = lit[i]

-----------------------------------------------------------------------------
(* Property values                                                         *)

NoScalar == [isnum |-> FALSE, n |-> 0, txt |-> <<>>]

Text(t) == [isnum |-> FALSE, n |-> 0, txt |-> t]

Num(k) == [isnum |-> TRUE, n |-> k, txt |-> <<>>]

Sc(v) == [tag |-> "scalar", s |-> v, d |-> <<>>, l |-> <<>>]

Dt(m) == [tag |-> "dict", s |-> NoScalar, d |-> m, l |-> <<>>]

Ls(q) == [tag |-> "list", s |-> NoScalar, d |-> <<>>, l |-> q]

EmptyDict == <<>>

\* What a call returns, or the fact that it raised.
Returned(t) == [ok |-> TRUE, tree |-> t]

Raised == [ok |-> FALSE, tree |-> EmptyDict]

-----------------------------------------------------------------------------
(* IndicatorFilter._whitelist_test                                         *)

\* The test with its sense turned round: a value passes when a pattern
\* matches it.
WhitelistTestAllowing(element_value, whitelist) ==
    \E i \in 1..Len(whitelist) : ReMatch(whitelist[i], PyStr(element_value))

WhitelistTest(element_value, whitelist) ==
    ~ \E i \in 1..Len(whitelist) : ReMatch(whitelist[i], PyStr(element_value))

-----------------------------------------------------------------------------
(* IndicatorFilter._prune_object_properties                                *)

\* supported_properties[key] for a key of the dict
Lookup(supported_properties, key) ==
    LET i == CHOOSE j \in 1..Len(supported_properties) :
                 supported_properties[j].path = key
    IN  supported_properties[i].wl

HasKey(supported_properties, key) ==
    \E j \in 1..Len(supported_properties) : supported_properties[j].path = key

\* The loop over supported_properties.keys() for one nested scalar, from
\* candidate i on. split_key is the one list the loop shares: a candidate
\* with the scalar's root pops a trailing "value" from it, and the next
\* candidate reads what is left. [ok, keep]: ok is FALSE when split_key[0]
\* is read from the emptied list (IndexError).
RECURSIVE ScanPaths(_, _, _, _, _)
ScanPaths(supported_properties, i, split_key, property_value, keep) ==
    IF i > Len(supported_properties) THEN [ok |-> TRUE, keep |-> keep]
    ELSE IF split_key = <<>> THEN [ok |-> FALSE, keep |-> keep]
    ELSE
      LET split_object_path == Split(supported_properties[i].path)
      IN  IF split_key[1] = split_object_path[1]
          THEN LET popped == IF Last(split_key) = "value"
                             THEN Front(split_key) ELSE split_key
                   match == \A j \in 2..Len(popped) :
                                popped[j] \in Range(Tail(split_object_path))
                   hit == match /\ WhitelistTest(property_value,
                                                 supported_properties[i].wl)
               IN  ScanPaths(supported_properties, i + 1, popped,
                             property_value, keep \/ hit)
          ELSE ScanPaths(supported_properties, i + 1, split_key,
                         property_value, keep)

\* The scalar branch (lines 65-93) for one property: [ok, keep].
PruneScalar(supported_properties, parent_key, property_name, property_value) ==
    IF parent_key = <<>>
    THEN [ok |-> TRUE,
          keep |-> /\ HasKey(supported_properties, <<property_name>>)
                   /\ WhitelistTest(property_value,
                                    Lookup(supported_properties, <<property_name>>))]
    ELSE ScanPaths(supported_properties, 1,
                   Split(parent_key) \o <<property_name>>, property_value, FALSE)

\* Line 98 testing the dict that was given in place of the dict it pruned.
KeepDictGiven(property_value, pruned_nested_dict) == property_value # EmptyDict

\* Line 98: a nested dict is kept when what is left of it is not empty.
KeepDict(property_value, pruned_nested_dict) == pruned_nested_dict # EmptyDict

\* Line 105 without its test for an empty dict among the pruned items.
KeepListNonEmpty(pruned_list) == pruned_list # <<>>

\* Line 105: a list is kept when it is not empty and no item pruned to {}.
KeepList(pruned_list) ==
    /\ pruned_list # <<>>
    /\ \A j \in 1..Len(pruned_list) : pruned_list[j] # EmptyDict

\* _prune_object_properties(object_dict, supported_properties, parent_key):
\* Returned(pruned_dict), or Raised.
RECURSIVE PruneObjectProperties(_, _, _)
PruneObjectProperties(dict, supported_properties, parent_key) ==
    LET updated_key(name) ==
            IF parent_key # <<>> THEN JoinKey(parent_key, name) ELSE <<name>>
        \* what one property contributes: [ok, keep, val]
        Item(name) ==
            LET property_value == dict[name] IN
            CASE property_value.tag = "scalar" ->
                   LET r == PruneScalar(supported_properties, parent_key, name, property_value.s)
                   IN  [ok |-> r.ok, keep |-> r.keep, val |-> property_value]
              [] property_value.tag = "dict" ->
                   LET r == PruneObjectProperties(property_value.d, supported_properties,
                                                  updated_key(name))
                   IN  [ok |-> r.ok, keep |-> KeepDict(property_value.d, r.tree), val |-> Dt(r.tree)]
              [] OTHER ->
                   LET rs == [j \in 1..Len(property_value.l) |->
                                 PruneObjectProperties(property_value.l[j], supported_properties,
                                                       updated_key(name))]
                       pruned_list == [j \in 1..Len(property_value.l) |-> rs[j].tree]
                   IN  [ok |-> \A j \in 1..Len(property_value.l) : rs[j].ok,
                        keep |-> KeepList(pruned_list),
                        val |-> Ls(pruned_list)]
        items == [name \in DOMAIN dict |-> Item(name)]
    IN  IF \E name \in DOMAIN dict : ~ items[name].ok
        THEN Raised
        ELSE Returned([name \in {k \in DOMAIN dict : items[k].keep} |-> items[name].val])

-----------------------------------------------------------------------------
(* IndicatorFilter._contraindicator_check                                  *)

\* sub in text
Contains(sub, text) ==
    \E k \in 0..(Len(text) - Len(sub)) : SubSeq(text, k + 1, k + Len(sub)) = sub

\* The test of one context entry (lines 32-43); None and "" are both <<>>.
EntryContraindicates(config_dict, context_entry) ==
    LET action_name == context_entry[1]
        association_type == context_entry[2]
    IN  /\ action_name # <<>> /\ association_type # <<>>
        /\ \/ \E c \in 1..Len(config_dict.contraindicators) :
                 Contains(config_dict.contraindicators[c], action_name)
           \/ \E m \in 1..Len(config_dict.modifiers) :
                 /\ Contains(config_dict.modifiers[m], action_name)
                 /\ association_type = <<"input">>

\* The loop of lines 30-44 leaving after its first entry.
ContraindicatorFirstOnly(config_dict, context, k, flag) ==
    IF k > Len(context) THEN flag
    ELSE flag \/ EntryContraindicates(config_dict, context[k])

\* The loop of lines 28-45 from entry k on: it breaks once contraindication
\* is set, and returns it.
RECURSIVE ContraindicatorLoop(_, _, _, _)
ContraindicatorLoop(config_dict, context, k, flag) ==
    IF k > Len(context) \/ flag THEN flag
    ELSE ContraindicatorLoop(config_dict, context, k + 1,
                             EntryContraindicates(config_dict, context[k]))

ContraindicatorCheck(config_dict, context) ==
    ContraindicatorLoop(config_dict, context, 1, FALSE)

-----------------------------------------------------------------------------
(* IndicatorFilter._required_property_check                                *)

\* The scalar leaves of a tree, each with its address: the steps from the
\* root, a step being a property name and, when the property holds a list,
\* the index of the item entered (0 when it holds a dict or the scalar).
RECURSIVE AllLeaves(_, _)
AllLeaves(dict, prefix) ==
    UNION {
        LET property_value == dict[name] IN
        CASE property_value.tag = "scalar" ->
               {[addr |-> Append(prefix, [name |-> name, idx |-> 0]),
                 scalar |-> property_value.s]}
          [] property_value.tag = "dict" ->
               AllLeaves(property_value.d, Append(prefix, [name |-> name, idx |-> 0]))
          [] OTHER ->
               UNION {AllLeaves(property_value.l[j],
                                Append(prefix, [name |-> name, idx |-> j])) :
                         j \in 1..Len(property_value.l)}
        : name \in DOMAIN dict}

\* ConfigParser.flatten_dict: one leaf for each scalar reached.
FlattenDict(dict) == AllLeaves(dict, <<>>)

\* Line 117: as many leaves are left as the required dict has paths.
RequiredStep(pruned_properties, required_properties) ==
    Cardinality(FlattenDict(pruned_properties)) = Len(required_properties)

\* Line 122: the dict pruned against the group has one key.
MutuallyExclusiveStep(mutually_exclusive_pruned) ==
    Cardinality(DOMAIN mutually_exclusive_pruned) = 1

\* [ok, found]: properties_found, or ok FALSE when a pruning raised.
RequiredPropertyCheck(properties, object_properties_dict) ==
    LET required_properties == object_properties_dict.required
        mutually_exclusive_properties == object_properties_dict.mutually_exclusive
        pruned_properties == PruneObjectProperties(properties, required_properties, <<>>)
        mutually_exclusive_pruned ==
            PruneObjectProperties(properties, mutually_exclusive_properties, <<>>)
    IN  IF ~ pruned_properties.ok THEN [ok |-> FALSE, found |-> FALSE]
        ELSE IF mutually_exclusive_properties = <<>>
        THEN [ok |-> TRUE,
              found |-> RequiredStep(pruned_properties.tree, required_properties)]
        ELSE IF ~ mutually_exclusive_pruned.ok THEN [ok |-> FALSE, found |-> FALSE]
        ELSE [ok |-> TRUE,
              found |-> /\ RequiredStep(pruned_properties.tree, required_properties)
                        /\ MutuallyExclusiveStep(mutually_exclusive_pruned.tree)]

-----------------------------------------------------------------------------
(* IndicatorFilter.prune_objects                                           *)

\* An update that adds nothing.
DictUpdateDropped(a, b) == a

\* a.update(b) on dicts kept as item sequences: a key of a takes b's value,
\* a new key is added.
RECURSIVE DictUpdate(_, _)
DictUpdate(a, b) ==
    IF b = <<>> THEN a
    ELSE LET item == b[1]
             merged == IF HasKey(a, item.path)
                       THEN [j \in 1..Len(a) |->
                                IF a[j].path = item.path THEN item ELSE a[j]]
                       ELSE Append(a, item)
         IN  DictUpdate(merged, Tail(b))

\* Lines 150-153
FullProperties(object_type_conf) ==
    DictUpdate(DictUpdate(DictUpdate(<<>>, object_type_conf.required),
                          object_type_conf.optional),
               object_type_conf.mutually_exclusive)

\* The orders in which keys() may enumerate the items of a dict.
Orders(items) ==
    {[j \in 1..Len(items) |-> items[f[j]]] :
        f \in {g \in [1..Len(items) -> 1..Len(items)] :
                  \A i, j \in 1..Len(items) : i # j => g[i] # g[j]}}

\* Line 155: full_pruned_properties["xsi:type"] = xsi_type
SetXsiType(full_pruned_properties, xsi_type) ==
    [name \in DOMAIN full_pruned_properties \cup {"xsi:type"} |->
        IF name = "xsi:type" THEN Sc(Text(<<xsi_type>>))
        ELSE full_pruned_properties[name]]

\* Lines 157-159: the entry with its object replaced by a new one that holds
\* the pruned properties (from_dict reads its type from "xsi:type").
WithPrunedObject(entry, full_pruned_properties) ==
    [entry EXCEPT !.properties = full_pruned_properties,
                  !.xsi_type = full_pruned_properties["xsi:type"].s.txt[1]]

\* Line 161 putting the entry at the head of the list.
InsertFinal(final_indicator_objects, entry) == <<entry>> \o final_indicator_objects

\* Line 161
AppendFinal(final_indicator_objects, entry) == Append(final_indicator_objects, entry)

-----------------------------------------------------------------------------
(* The inputs of the pruner's specification                                *)

\* "ba" starts with "b"; str(12) is "12", which holds "2" but not at its start.
ScalarValues == {Text(<<"b", "a">>), Num(12)}

Scalars == {Sc(v) : v \in ScalarValues}

\* Dicts with keys among names (at most one key, or at most two) over values.
DictsUpTo1(names, values) == UNION {[K -> values] : K \in {{}} \cup {{k} : k \in names}}

DictsUpTo2(names, values) == UNION {[K -> values] : K \in SUBSET names}

\* Lists of at most two items, each {} or a dict of one scalar.
ListItems == DictsUpTo1({"x"}, Scalars)

Lists == {<<>>} \cup {<<a>> : a \in ListItems} \cup {<<a, b>> : a, b \in ListItems}

\* Trees nested three names deep: a dict holds one key, a dict of scalars two.
InnerValues == Scalars \cup {Dt(m) : m \in DictsUpTo2(NestedNames, Scalars)}
                       \cup {Ls(q) : q \in Lists}

TopValues == Scalars \cup {Dt(m) : m \in DictsUpTo1(NestedNames, InnerValues)}
                     \cup {Dt(m) : m \in DictsUpTo2(NestedNames, Scalars)}
                     \cup {Ls(q) : q \in Lists}

Trees == DictsUpTo1(RootNames, TopValues) \cup DictsUpTo2(RootNames, Scalars)

\* The exclusion patterns a path may carry: none, or "^b" and "2".
Whitelists == {<<>>, << <<"^", "b">>, <<"2">> >>}

\* The paths a supported_properties dict may hold.
SpecPaths == {<<"A">>, <<"A", "/", "x">>, <<"value">>, <<"value", "/", "x">>,
              <<"value", "/", "value">>}

\* A supported_properties dict holds at most MaxPaths paths.
MaxPaths == 3

DistinctPaths(items) ==
    \A i, j \in 1..Len(items) : i # j => items[i].path # items[j].path

\* The dicts, each in every order in which keys() may enumerate it.
SupportedDicts ==
    {items \in UNION {[1..n -> [path : SpecPaths, wl : Whitelists]] : n \in 0..MaxPaths} :
        DistinctPaths(items)}

-----------------------------------------------------------------------------
(* The pruner alone: one call, and a second call on what the first         *)
(* returned, with the same supported_properties dict.                      *)

\* A configuration with nothing in it, and the variables a run leaves alone.
NoConfig == [contraindicators |-> <<>>, modifiers |-> <<>>, supported_objects |-> <<>>]

NoPrune ==
    object_dict = EmptyDict /\ supported = <<>> /\ pruned = Raised /\ repruned = Raised

NoContra == action_context = <<>> /\ contraindication = FALSE

NoFilter == candidates = <<>> /\ given = <<>> /\ final = <<>> /\ position = 0

InitPrune ==
    /\ pc = "start"
    /\ object_dict \in Trees
    /\ supported \in SupportedDicts
    /\ pruned = Raised
    /\ repruned = Raised
    /\ config = NoConfig
    /\ NoContra /\ NoFilter

CallPrune ==
    /\ pc = "start"
    /\ pruned' = PruneObjectProperties(object_dict, supported, <<>>)
    /\ pc' = IF pruned'.ok THEN "pruned" ELSE "raised"
    /\ UNCHANGED <<object_dict, supported, repruned, config, contra_vars, filter_vars>>

CallPruneAgain ==
    /\ pc = "pruned"
    /\ repruned' = PruneObjectProperties(pruned.tree, supported, <<>>)
    /\ pc' = "repruned"
    /\ UNCHANGED <<object_dict, supported, pruned, config, contra_vars, filter_vars>>

NextPrune == CallPrune \/ CallPruneAgain

SpecPrune == InitPrune /\ [][NextPrune]_vars

-----------------------------------------------------------------------------
(* The contraindicator check alone                                         *)

\* Action names: none, "xdel", "mod", "get"; association types: none,
\* "input", "output".
ActionNames == {<<>>, <<"x", "d", "e", "l">>, <<"m", "o", "d">>, <<"g", "e", "t">>}

AssociationTypes == {<<>>, <<"input">>, <<"output">>}

ContextEntries == {<<a, t>> : a \in ActionNames, t \in AssociationTypes}

\* An action context holds at most MaxActions entries.
MaxActions == 2

ActionContexts == UNION {[1..n -> ContextEntries] : n \in 0..MaxActions}

\* config_dict: the contraindicator "del" or none, the modifier "mod" or none.
ConfigDicts ==
    {[contraindicators |-> c, modifiers |-> m, supported_objects |-> <<>>] :
        c \in {<<>>, << <<"d", "e", "l">> >>}, m \in {<<>>, << <<"m", "o", "d">> >>}}

InitContra ==
    /\ pc = "start"
    /\ config \in ConfigDicts
    /\ action_context \in ActionContexts
    /\ contraindication = FALSE
    /\ NoPrune /\ NoFilter

CallContraindicatorCheck ==
    /\ pc = "start"
    /\ contraindication' = ContraindicatorCheck(config, action_context)
    /\ pc' = "checked"
    /\ UNCHANGED <<config, action_context, prune_vars, filter_vars>>

NextContra == CallContraindicatorCheck

SpecContra == InitContra /\ [][NextContra]_vars

-----------------------------------------------------------------------------
(* prune_objects over a list of candidates                                 *)

\* The property trees of the candidates: under "P", a "Name" or none, and
\* none, one or both of "MD5" and "SHA1", or a "Sub" dict with a "Name".
NameChoices == {<<>>, [k \in {"Name"} |-> Sc(Text(<<"b", "a">>))]}

OtherChoices ==
    {<<>>,
     [k \in {"MD5"} |-> Sc(Num(12))],
     [k \in {"MD5", "SHA1"} |-> Sc(Num(12))],
     [k \in {"Sub"} |-> Dt([j \in {"Name"} |-> Sc(Text(<<"a", "b">>))])]}

CandidateTrees ==
    {[k \in {"P"} |->
         Dt([j \in DOMAIN a \cup DOMAIN b |-> IF j \in DOMAIN a THEN a[j] ELSE b[j]])] :
        a \in NameChoices, b \in OtherChoices}

\* A candidate: a supported object with no action and any of the trees, or
\* a supported object that was deleted or an object of another type, with a
\* tree that holds the name.
CandidateKinds ==
    {[xsi_type |-> "FileObj", action_context |-> <<>>, properties |-> t] :
        t \in CandidateTrees}
    \cup
    {[xsi_type |-> k[1], action_context |-> k[2], properties |-> t] :
        k \in {<<"FileObj", << <<<<"x", "d", "e", "l">>, <<"output">>>> >> >>,
               <<"Other", <<>> >>},
        t \in {u \in CandidateTrees : DOMAIN u["P"].d \in {{"Name"}, {"Name", "MD5"}}}}

\* The list holds at most MaxEntries candidates; id is the entry's identity.
MaxEntries == 2

CandidateLists ==
    UNION {
        {[k \in 1..n |-> [id |-> k, xsi_type |-> kinds[k].xsi_type,
                          action_context |-> kinds[k].action_context,
                          properties |-> kinds[k].properties]] :
            kinds \in [1..n -> CandidateKinds]}
        : n \in 0..MaxEntries}

Unlisted(path) == [path |-> path, wl |-> <<>>]

\* The schema of "FileObj": what is required, and whether the hashes are
\* mutually exclusive; "SHA1" is optional.
RequiredChoices ==
    {<<>>,
     <<Unlisted(<<"P", "/", "Name">>)>>,
     <<[path |-> <<"P", "/", "Name">>, wl |-> << <<"^", "b">> >>]>>,
     <<Unlisted(<<"P", "/", "Sub", "/", "Name">>), Unlisted(<<"P", "/", "MD5">>)>>}

MutuallyExclusiveChoices ==
    {<<>>, <<Unlisted(<<"P", "/", "MD5">>), Unlisted(<<"P", "/", "SHA1">>)>>}

Configs ==
    {[contraindicators |-> << <<"d", "e", "l">> >>,
      modifiers |-> << <<"m", "o", "d">> >>,
      supported_objects |->
          [t \in {"FileObj"} |->
              [required |-> r,
               optional |-> <<Unlisted(<<"P", "/", "SHA1">>)>>,
               mutually_exclusive |-> m]]] :
        r \in RequiredChoices, m \in MutuallyExclusiveChoices}

Init ==
    /\ pc = "loop"
    /\ config \in Configs
    /\ candidates \in CandidateLists
    /\ given = candidates
    /\ final = <<>>
    /\ position = 0
    /\ NoPrune /\ NoContra

\* One turn of the loop of lines 140-161, on the next candidate. The entry
\* that line 161 appends is the entry of the list itself, changed by line 159.
Iterate ==
    /\ pc = "loop"
    /\ position < Len(candidates)
    /\ position' = position + 1
    /\ LET entry == candidates[position + 1]
           xsi_type == entry.xsi_type
           Skipped == pc' = pc /\ final' = final /\ candidates' = candidates
           Failed == pc' = "raised" /\ final' = final /\ candidates' = candidates
       IN  IF xsi_type \notin DOMAIN config.supported_objects
              \/ ContraindicatorCheck(config, entry.action_context)
           THEN Skipped
           ELSE
             LET object_type_conf == config.supported_objects[xsi_type]
                 check == RequiredPropertyCheck(entry.properties, object_type_conf)
             IN  IF ~ check.ok THEN Failed
                 ELSE IF ~ check.found THEN Skipped
                 ELSE \E full_properties \in Orders(FullProperties(object_type_conf)) :
                        LET full_pruned_properties ==
                                PruneObjectProperties(entry.properties,
                                                      full_properties, <<>>)
                            changed ==
                                WithPrunedObject(entry,
                                    SetXsiType(full_pruned_properties.tree, xsi_type))
                        IN  IF ~ full_pruned_properties.ok THEN Failed
                            ELSE /\ pc' = pc
                                 /\ candidates' =
                                        [candidates EXCEPT ![position + 1] = changed]
                                 /\ final' = AppendFinal(final, changed)
    /\ UNCHANGED <<config, given, prune_vars, contra_vars>>

\* Line 162
Return ==
    /\ pc = "loop"
    /\ position = Len(candidates)
    /\ pc' = "done"
    /\ UNCHANGED <<config, candidates, given, final, position, prune_vars, contra_vars>>

Next == Iterate \/ Return

Spec == Init /\ [][Next]_vars

-----------------------------------------------------------------------------
(* What the claims about the pruner speak of                               *)

\* A scalar stands in the tree at the address.
RECURSIVE PresentAt(_, _)
PresentAt(dict, addr) ==
    /\ addr[1].name \in DOMAIN dict
    /\ LET property_value == dict[addr[1].name] IN
       IF Len(addr) = 1 THEN property_value.tag = "scalar"
       ELSE IF addr[1].idx = 0
            THEN property_value.tag = "dict" /\ PresentAt(property_value.d, Tail(addr))
            ELSE /\ property_value.tag = "list"
                 /\ addr[1].idx <= Len(property_value.l)
                 /\ PresentAt(property_value.l[addr[1].idx], Tail(addr))

\* The segments of a leaf's path: the names of its steps.
Segments(addr) == [j \in 1..Len(addr) |-> addr[j].name]

ThroughDictsOnly(addr) == \A j \in 1..Len(addr) : addr[j].idx = 0

\* The matching rule as the design states it: a top-level property matches
\* the path equal to its name; a nested one matches a path with its root
\* whose other segments hold all of its own, a trailing "value" dropped once.
PathMatches(segments, path) ==
    IF Len(segments) = 1 THEN path = segments
    ELSE LET candidate == Split(path)
             dropped == IF Last(segments) = "value" THEN Front(segments) ELSE segments
         IN  /\ candidate[1] = segments[1]
             /\ \A j \in 2..Len(dropped) : dropped[j] \in Range(Tail(candidate))

SharesRoot(segments, path) == Split(path)[1] = segments[1]

\* Some pattern of the list matches the stringified scalar at its start.
Excluded(element_value, whitelist) ==
    \E j \in 1..Len(whitelist) : ReMatch(whitelist[j], PyStr(element_value))

PruneIdempotent == pc = "repruned" => repruned = pruned

\* A first call that removed something and kept something, pruned again.
PruneIdempotentWitness ==
    /\ pc = "repruned"
    /\ pruned.tree # EmptyDict
    /\ pruned.tree # object_dict

\* The all-or-nothing law for the lists of a tree and of what is kept of it.
RECURSIVE SequenceLaw(_, _, _)
SequenceLaw(dict, result, parent_key) ==
    \A name \in DOMAIN dict :
        LET property_value == dict[name]
            key == IF parent_key # <<>> THEN JoinKey(parent_key, name) ELSE <<name>>
        IN  CASE property_value.tag = "list" ->
                   /\ name \in DOMAIN result <=>
                        /\ property_value.l # <<>>
                        /\ \A j \in 1..Len(property_value.l) :
                              PruneObjectProperties(property_value.l[j], supported, key).tree
                                  # EmptyDict
                   /\ name \in DOMAIN result =>
                        /\ result[name].tag = "list"
                        /\ Len(result[name].l) = Len(property_value.l)
                        /\ \A j \in 1..Len(property_value.l) :
                              SequenceLaw(property_value.l[j], result[name].l[j], key)
              [] property_value.tag = "dict" ->
                   name \in DOMAIN result =>
                        /\ result[name].tag = "dict"
                        /\ SequenceLaw(property_value.d, result[name].d, key)
              [] OTHER -> TRUE

\* No empty dict as a value or as a list item, and no empty list, at any depth.
RECURSIVE NothingEmpty(_)
NothingEmpty(dict) ==
    \A name \in DOMAIN dict :
        LET property_value == dict[name] IN
        CASE property_value.tag = "dict" -> property_value.d # EmptyDict /\ NothingEmpty(property_value.d)
          [] property_value.tag = "list" ->
               /\ property_value.l # <<>>
               /\ \A j \in 1..Len(property_value.l) :
                     property_value.l[j] # EmptyDict /\ NothingEmpty(property_value.l[j])
          [] OTHER -> TRUE

\* C8: a key holding a list is kept exactly when the list is not empty and
\* every item pruned to something; a result holds nothing empty.
SequenceAllOrNothing ==
    pc = "pruned" =>
        /\ SequenceLaw(object_dict, pruned.tree, <<>>)
        /\ NothingEmpty(pruned.tree)

\* A list of two items, one pruned to {} and one not, dropped as a whole.
SequenceAllOrNothingWitness ==
    /\ pc = "pruned"
    /\ \E name \in DOMAIN object_dict :
          /\ object_dict[name].tag = "list"
          /\ Len(object_dict[name].l) = 2
          /\ \E j, k \in 1..2 :
                /\ PruneObjectProperties(object_dict[name].l[j], supported,
                                         <<name>>).tree = EmptyDict
                /\ PruneObjectProperties(object_dict[name].l[k], supported,
                                         <<name>>).tree # EmptyDict
          /\ name \notin DOMAIN pruned.tree

\* C9: the call ends the same way, with the same tree, in whatever order
\* keys() enumerates the paths of the dict.
PathOrderIrrelevant ==
    pc \in {"pruned", "raised"} =>
        \A q \in Orders(supported) :
            PruneObjectProperties(object_dict, q, <<>>) = pruned

\* C10: the call never raises, and returns {} when no property is allowed.
PruneNeverRaises ==
    /\ pc # "raised"
    /\ (pc = "pruned" /\ supported = <<>>) => pruned.tree = EmptyDict

-----------------------------------------------------------------------------
(* What the claims about the contraindicator check speak of                *)

\* The condition of the OR law on one (action name, association type) pair.
Disqualifies(pair) ==
    \/ \E c \in 1..Len(config.contraindicators) :
          Contains(config.contraindicators[c], pair[1])
    \/ /\ \E m \in 1..Len(config.modifiers) : Contains(config.modifiers[m], pair[1])
       /\ pair[2] = <<"input">>

\* C4 as stated: the check is true exactly when some pair disqualifies; it
\* is the same for every permutation of the pairs and false for no pairs.
ContraindicationOrLaw ==
    pc = "checked" =>
        /\ contraindication <=>
              \E k \in 1..Len(action_context) : Disqualifies(action_context[k])
        /\ \A q \in Orders(action_context) :
              ContraindicatorCheck(config, q) = contraindication
        /\ action_context = <<>> => ~ contraindication

\* C4 amended: the check is true exactly when some pair whose action name
\* and association type are both non-empty disqualifies; it is the same for
\* every permutation of the pairs and false for no pairs.
ContraindicationOrLawNonEmpty ==
    pc = "checked" =>
        /\ contraindication <=>
              \E k \in 1..Len(action_context) :
                  /\ action_context[k][1] # <<>> /\ action_context[k][2] # <<>>
                  /\ Disqualifies(action_context[k])
        /\ \A q \in Orders(action_context) :
              ContraindicatorCheck(config, q) = contraindication
        /\ action_context = <<>> => ~ contraindication

\* A check that is true for the second of two pairs alone, by a modifier on
\* an input, after a pair that names a contraindicator but no association.
ContraindicationWitness ==
    /\ pc = "checked"
    /\ contraindication
    /\ Len(action_context) = 2
    /\ action_context[1] = <<<<"x", "d", "e", "l">>, <<>>>>
    /\ action_context[2] = <<<<"m", "o", "d">>, <<"input">>>>
    /\ config.contraindicators # <<>>

-----------------------------------------------------------------------------
(* What the claims about prune_objects speak of                            *)

Ids(entries) == [k \in 1..Len(entries) |-> entries[k].id]

\* The three checks of an entry, each as the filter computes it.
PassesChecks(entry) ==
    /\ entry.xsi_type \in DOMAIN config.supported_objects
    /\ ~ ContraindicatorCheck(config, entry.action_context)
    /\ RequiredPropertyCheck(entry.properties,
                             config.supported_objects[entry.xsi_type]).found

\* C1: the output is the candidates that pass the three checks, in their
\* order, each once: at every turn of the loop, and when it returns.
OutputIsPassingSubsequence ==
    pc \in {"loop", "done"} =>
        /\ Ids(final) = Ids(SelectSeq(SubSeq(given, 1, position), PassesChecks))
        /\ \A j, k \in 1..Len(final) : j < k => final[j].id < final[k].id
        /\ pc = "done" => position = Len(given)

\* A run that dropped its first candidate and kept its second.
OutputIsPassingSubsequenceWitness ==
    /\ pc = "done"
    /\ Len(given) = 2
    /\ Ids(final) = <<2>>

\* A leaf satisfies an item of a supported_properties dict: its path matches
\* the item's and no pattern of the item excludes its scalar.
Satisfies(leaf, item) ==
    /\ PathMatches(Segments(leaf.addr), item.path)
    /\ ~ Excluded(leaf.scalar, item.wl)

SatisfyingLeaves(properties, item) ==
    {leaf \in AllLeaves(properties, <<>>) : Satisfies(leaf, item)}

\* The object the filter was given for an entry of the output.
Original(entry) == given[entry.id]

\* C2: an accepted object has exactly one satisfying leaf for each of its
\* schema's required paths.
RequiredPathsEachOnce ==
    \A k \in 1..Len(final) :
        LET required == config.supported_objects[Original(final[k]).xsi_type].required
        IN  \A r \in 1..Len(required) :
                Cardinality(SatisfyingLeaves(Original(final[k]).properties,
                                             required[r])) = 1

\* C3: with a mutually exclusive group in its schema, the step of the check
\* on the group passes only for an object that supplies exactly one of the
\* group's paths, so the check is false for an object that supplies two.
MutuallyExclusiveExactlyOne ==
    \A k \in 1..position :
        (given[k].xsi_type \in DOMAIN config.supported_objects
         /\ ~ ContraindicatorCheck(config, given[k].action_context)) =>
            LET group == config.supported_objects[given[k].xsi_type].mutually_exclusive
                mutually_exclusive_pruned ==
                    PruneObjectProperties(given[k].properties, group, <<>>)
                supplied == {g \in 1..Len(group) :
                                SatisfyingLeaves(given[k].properties, group[g]) # {}}
            IN  /\ (group # <<>> /\ mutually_exclusive_pruned.ok
                       /\ MutuallyExclusiveStep(mutually_exclusive_pruned.tree))
                      => Cardinality(supplied) = 1
                /\ (group # <<>> /\ Cardinality(supplied) >= 2)
                      => ~ RequiredPropertyCheck(given[k].properties,
                               config.supported_objects[given[k].xsi_type]).found

\* The union of a schema's three dicts: on a path that two of them hold, the
\* one merged later gives the patterns.
UnionItems(object_type_conf) ==
    LET PatternsIn(items, path) == Lookup(items, path)
        paths == {object_type_conf.required[j].path :
                     j \in 1..Len(object_type_conf.required)}
                 \cup {object_type_conf.optional[j].path :
                     j \in 1..Len(object_type_conf.optional)}
                 \cup {object_type_conf.mutually_exclusive[j].path :
                     j \in 1..Len(object_type_conf.mutually_exclusive)}
    IN  {[path |-> path,
          wl |-> IF HasKey(object_type_conf.mutually_exclusive, path)
                 THEN PatternsIn(object_type_conf.mutually_exclusive, path)
                 ELSE IF HasKey(object_type_conf.optional, path)
                 THEN PatternsIn(object_type_conf.optional, path)
                 ELSE PatternsIn(object_type_conf.required, path)] : path \in paths}

Enumerations(items) ==
    {q \in [1..Cardinality(items) -> items] : Range(q) = items}

\* C6: the object of an accepted entry holds the original tree pruned
\* against the union of the schema's dicts, with "xsi:type" set to the
\* original type tag, and nothing else; the entry is otherwise the same.
AcceptedObjectIsFullPruning ==
    \A k \in 1..Len(final) :
        LET original == Original(final[k])
            items == UnionItems(config.supported_objects[original.xsi_type])
        IN  /\ final[k].xsi_type = original.xsi_type
            /\ final[k].action_context = original.action_context
            /\ \E q \in Enumerations(items) :
                  LET r == PruneObjectProperties(original.properties, q, <<>>)
                  IN  /\ r.ok
                      /\ DOMAIN final[k].properties = DOMAIN r.tree \cup {"xsi:type"}
                      /\ \A name \in DOMAIN final[k].properties :
                            final[k].properties[name] =
                                IF name = "xsi:type"
                                THEN Sc(Text(<<original.xsi_type>>))
                                ELSE r.tree[name]

\* An accepted object that kept a required and an optional property and
\* lost a property no dict of its schema holds.
AcceptedObjectWitness ==
    /\ pc = "done"
    /\ \E k \in 1..Len(final) :
          /\ DOMAIN Original(final[k]).properties["P"].d = {"Name", "MD5", "SHA1"}
          /\ DOMAIN final[k].properties = {"P", "xsi:type"}
          /\ DOMAIN final[k].properties["P"].d = {"Name", "SHA1"}

=============================================================================
